---- MODULE Spec2Model ----
(***************************************************************************)
(* tx-keeper: a Transaction holds a commit group and a rollback group of   *)
(* deferred callables and runs either group in order.  The model follows   *)
(* package transaction (Transaction, NewTransaction, WithCommit,           *)
(* WithRollback, DoCommit, DoRollback, doCommit, doRollback) and the       *)
(* sentinel errors of error.go.                                            *)
(*                                                                         *)
(* A call of DoCommit/DoRollback is modelled step by step: the             *)
(* precondition check, one step per invocation of a user callable, and the *)
(* return.  Every invocation of a callable is appended to `trace`, the     *)
(* only side effect a callable of the model has.                           *)
(***************************************************************************)
EXTENDS Integers, Sequences, FiniteSets, TLC

(***************************************************************************)
(* Bounds of the model.                                                    *)
(***************************************************************************)
\* the longest group (Commit.Fns / Rollback.Fns) a caller builds
MaxFns == 2
\* the longest option list handed to NewTransaction
MaxOpts == 2

\* the Transaction instances of the model; Spec drives the first only
Txs == {"t1", "t2"}

OneTx == {"t1"}

(***************************************************************************)
(* Errors.  An error value is a record; Error() is its printed text.       *)
(***************************************************************************)
\* the nil error
NoErr == [type |-> "nil", msg |-> ""]

\* a nil pointer dereference: the call does not return an error, it panics
Panic == [type |-> "panic", msg |-> "invalid memory address or nil pointer dereference"]

\* TxError.Error(): the package prefix, then the message
TxErrorStringBare(msg) == msg

TxErrorString(msg) == "tx-keeper: " \o msg

ErrCannotDoCommit == [type |-> "TxError", msg |-> "cannot do commit. Rollback function is not set"]

ErrCannotDoRollback == [type |-> "TxError", msg |-> "cannot do rollback. Rollback function is not set"]

\* the error a failing callable of the tests returns: fmt.Errorf("some error")
SomeError == [type |-> "errorString", msg |-> "some error"]

\* err.Error()
ErrorString(err) ==
    IF err.type = "TxError" THEN TxErrorString(err.msg) ELSE err.msg

\* errors.Unwrap: the error a %w wrapper holds, nil for any other error
Unwrap(e) == IF e.type = "wrapError" THEN e.err ELSE NoErr

\* fmt.Errorf("tx-keeper: error <stage> on func %d: %w", i, err)
WrapErrorBare(stage, i, err) == err

WrapErrorFormatted(stage, i, err) ==
    [type |-> "errorString",
     msg |-> "tx-keeper: error " \o stage \o " on func " \o ToString(i)
                \o ": " \o ErrorString(err)]

WrapErrorOneBased(stage, i, err) ==
    [type |-> "wrapError",
     msg |-> "tx-keeper: error " \o stage \o " on func " \o ToString(i + 1)
                \o ": " \o ErrorString(err),
     err |-> err]

WrapError(stage, i, err) ==
    [type |-> "wrapError",
     msg |-> "tx-keeper: error " \o stage \o " on func " \o ToString(i)
                \o ": " \o ErrorString(err),
     err |-> err]

(***************************************************************************)
(* Callables, actions and groups.                                          *)
(***************************************************************************)
\* Function{Fn, Args}: the callables are those of the tests, one that adds
\* its arguments to a shared sum and returns nil, one that returns an error
Functions ==
    { [Fn |-> "add", Args |-> <<1, 2, 3, 4, 5>>],
      [Fn |-> "add", Args |-> <<7>>],
      [Fn |-> "fail", Args |-> <<>>] }

\* callables that fail with one of the package's own sentinel errors
SentinelFunctions ==
    { [Fn |-> "add", Args |-> <<1, 2, 3, 4, 5>>],
      [Fn |-> "failCannotCommit", Args |-> <<>>],
      [Fn |-> "failCannotRollback", Args |-> <<>>] }

\* what calling fn.Fn(ctx, fn.Args...) returns
CallFn(f) ==
    CASE f.Fn = "fail" -> SomeError
      [] f.Fn = "failCannotCommit" -> ErrCannotDoCommit
      [] f.Fn = "failCannotRollback" -> ErrCannotDoRollback
      [] OTHER -> NoErr

RECURSIVE SumSeq(_)
SumSeq(s) == IF s = <<>> THEN 0 ELSE Head(s) + SumSeq(Tail(s))

\* the shared sum after the invocations tr: "add" adds each of the arguments
\* it is handed, the failing callables add nothing
RECURSIVE Accumulator(_)
Accumulator(tr) ==
    IF tr = <<>> THEN 0
    ELSE (IF Head(tr).fn.Fn = "add" THEN SumSeq(Head(tr).args) ELSE 0)
         + Accumulator(Tail(tr))

RECURSIVE SeqsUpTo(_, _)
SeqsUpTo(S, n) ==
    IF n = 0 THEN {<<>>}
    ELSE LET shorter == SeqsUpTo(S, n - 1)
         IN  shorter \cup {Append(s, x) : s \in shorter, x \in S}

\* the contents of a group: Fns []Function
FnsValues == SeqsUpTo(Functions, MaxFns)

\* a *Commit or *Rollback: nil, or a pointer to a group with these Fns
NilGroup == [isNil |-> TRUE, Fns |-> <<>>]

GroupPtr(fns) == [isNil |-> FALSE, Fns |-> fns]

\* NewCommit(fn, args...) / NewRollback(fn, args...): a single-action group
NewCommit(f) == GroupPtr(<<f>>)

NewRollback(f) == GroupPtr(<<f>>)

\* the pointers a caller can hand to WithCommit / WithRollback
GroupArgs == {NilGroup} \cup {GroupPtr(fns) : fns \in FnsValues}

\* the groups the constructors give, and the empty group &Rollback{} of the tests
BuiltCommits == {GroupPtr(<<>>)} \cup {NewCommit(f) : f \in Functions}

BuiltRollbacks == {GroupPtr(<<>>)} \cup {NewRollback(f) : f \in Functions}

\* groups of callables that fail with the sentinel errors
SentinelGroupArgs == {GroupPtr(fns) : fns \in SeqsUpTo(SentinelFunctions, MaxFns)}

(***************************************************************************)
(* Construction.                                                           *)
(***************************************************************************)
Options == {"WithNoCheckRollback"}

OptionLists == SeqsUpTo(Options, MaxOpts)

ApplyOptionIgnored(opt, flag) == flag

\* the Option returned by WithNoCheckRollback(), applied to the flag
ApplyOption(opt, flag) == IF opt = "WithNoCheckRollback" THEN FALSE ELSE flag

RECURSIVE ApplyOptions(_, _)
ApplyOptions(opts, flag) ==
    IF opts = <<>> THEN flag
    ELSE ApplyOptions(Tail(opts), ApplyOption(Head(opts), flag))

DefaultCheckRollbackOff == FALSE

DefaultCheckRollback == TRUE

\* NewTransaction(opts...)
NewTransaction(opts) ==
    [checkRollback |-> ApplyOptions(opts, DefaultCheckRollback),
     commit |-> GroupPtr(<<>>),
     rollback |-> GroupPtr(<<>>)]

VARIABLES
    checkRollback,  \* Transaction.checkRollback, per Transaction
    commit,         \* Transaction.commit (*Commit), per Transaction
    rollback,       \* Transaction.rollback (*Rollback), per Transaction
    pc,             \* "new" (constructed, not yet used), "idle", "loop" (inside
                    \* doCommit/doRollback), "done"
    op,             \* the method running or just returned: "DoCommit", "DoRollback", "none"
    self,           \* the Transaction the method was called on
    stage,          \* "commit" inside doCommit, "rollback" inside doRollback
    grp,            \* the field of the Transaction the loop's group was read from
    fns,            \* the slice the range loop iterates
    idx,            \* the loop index i, zero-based
    ret,            \* the value the call returned (or Panic)
    trace,          \* the callables invoked by the current call, in order
    pre,            \* history: the Transaction's fields when the call began
    prevCall,       \* history: the last call completed since the Transaction was last modified
    opts0,          \* history: per Transaction, the set of options NewTransaction was given
    withLog,        \* history: per Transaction, what the WithCommit calls so far were given
    recording,      \* whether withLog is kept (it is in SpecHist only)
    raced,          \* history: a With* call ran while the current call was in progress
    chain,          \* the *Transaction a With* call returned, while the caller chains on it
    rbLog,          \* history: per Transaction, what the WithRollback calls so far were given
    ctx,            \* the context.Context the call was given, and those handed to callables
    running,        \* the indices of the callables that were invoked and have not returned
    held            \* the group object the caller built, passed to With* and still points to

vars == <<checkRollback, commit, rollback, pc, op, self, stage, grp, fns, idx, ret,
          trace, pre, prevCall, opts0, withLog, recording, raced, chain,
          rbLog, ctx, running, held>>

NoCall == [op |-> "none", self |-> "none", trace |-> <<>>, ret |-> NoErr]

NoPre == [checkRollback |-> FALSE, commit |-> NilGroup, rollback |-> NilGroup]

Snapshot(t) ==
    [checkRollback |-> checkRollback[t], commit |-> commit[t], rollback |-> rollback[t]]

\* history of WithCommit: how many calls (0, 1, 2 for two or more), the
\* actions of the group given to the call before the last, the last argument
NoWithLog == [n |-> 0, before |-> {}, last |-> NilGroup]

LogWith(log, g) ==
    IF ~recording THEN log ELSE
    [n |-> IF log.n = 0 THEN 1 ELSE 2,
     before |-> IF log.n = 0 THEN {} ELSE {log.last.Fns[k] : k \in 1..Len(log.last.Fns)},
     last |-> g]

\* history of WithRollback, as withLog, kept when `on`
NoRbLog(on) == [on |-> on, n |-> 0, before |-> {}, last |-> NilGroup]

LogRollback(log, g) ==
    IF ~log.on THEN log ELSE
    [on |-> TRUE,
     n |-> IF log.n = 0 THEN 1 ELSE 2,
     before |-> IF log.n = 0 THEN {} ELSE {log.last.Fns[k] : k \in 1..Len(log.last.Fns)},
     last |-> g]

\* the contexts a caller passes: context.Background(), one already
\* cancelled, one whose deadline has passed
Background == "background"

Contexts == {Background, "cancelled", "deadlineExceeded"}

\* no call is running, so there is no context
NoCtx == [arg |-> "none", seen |-> <<>>]

\* the caller holds no pointer to a group of a Transaction
NoHeld == [tx |-> "none", field |-> "none", shared |-> FALSE, given |-> <<>>, Fns |-> <<>>]

CommitRefusedNilOnly(t) == checkRollback[t] /\ rollback[t].isNil

CommitRefusedIfNothingToCommit(t) ==
    \/ checkRollback[t] /\ Len(rollback[t].Fns) = 0
    \/ Len(commit[t].Fns) = 0

\* DoCommit's precondition check: checkRollback && len(t.rollback.Fns) == 0
CommitRefused(t) == checkRollback[t] /\ Len(rollback[t].Fns) = 0

RollbackRefusedIfChecked(t) == checkRollback[t] /\ Len(rollback[t].Fns) = 0

\* DoRollback's precondition check: len(t.rollback.Fns) == 0
RollbackRefused(t) == Len(rollback[t].Fns) = 0

\* t.commit / t.rollback
Field(t, field) == IF field = "commit" THEN commit[t] ELSE rollback[t]

DoCommitGroupRollback(t) == "rollback"

\* the field DoCommit hands to doCommit: doCommit(ctx, t.commit)
DoCommitGroup(t) == "commit"

\* the field DoRollback hands to doRollback: doRollback(ctx, t.rollback)
DoRollbackGroup(t) == "rollback"

RangeOverOnce(g) == IF prevCall.op # "none" THEN <<>> ELSE g.Fns

RangeOverReversed(g) == [k \in 1..Len(g.Fns) |-> g.Fns[Len(g.Fns) + 1 - k]]

RangeOverCommitted(g) ==
    IF prevCall.op # "DoCommit" THEN g.Fns
    ELSE LET ran == IF prevCall.ret = NoErr \/ prevCall.trace = <<>>
                    THEN Len(prevCall.trace) ELSE Len(prevCall.trace) - 1
         IN  SubSeq(g.Fns, 1, IF ran < Len(g.Fns) THEN ran ELSE Len(g.Fns))

\* for i, fn := range g.Fns: the slice iterated, the first index, the step
RangeOver(g) == g.Fns

FirstIndex == 0

PassedCtxBackground(c) == Background

\* the context handed to a callable by a call that was given c: fn.Fn(ctx, ...)
PassedCtx(c) == c

PassedArgsOfFirst(s, i) == s[1].Args

\* fn.Args..., the arguments handed to the callable at index i of the slice s
PassedArgs(s, i) == s[i + 1].Args

NextIndexSkips(i) == i + 2

NextIndexStays(i) == i

NextIndex(i) == i + 1

OptionsIn(opts) == {opts[k] : k \in 1..Len(opts)}

\* no call is in progress
Idle == pc \in {"new", "idle"}

\* the caller is not in the middle of a chain of With* calls
NoChain == [recv |-> "none", root |-> "none", hasC |-> FALSE, c |-> NilGroup,
            hasR |-> FALSE, r |-> NilGroup]

\* the Transactions of `used` are built with any options, the others with none
InitTx(used) ==
    /\ \E opts \in [Txs -> OptionLists] :
          /\ \A t \in Txs \ used : opts[t] = <<>>
          /\ opts0 = [t \in Txs |-> OptionsIn(opts[t])]
          /\ checkRollback = [t \in Txs |-> NewTransaction(opts[t]).checkRollback]
          /\ commit = [t \in Txs |-> NewTransaction(opts[t]).commit]
          /\ rollback = [t \in Txs |-> NewTransaction(opts[t]).rollback]
    /\ pc = "new"
    /\ op = "none"
    /\ self = "none"
    /\ stage = "none"
    /\ grp = "none"
    /\ fns = <<>>
    /\ idx = 0
    /\ ret = NoErr
    /\ trace = <<>>
    /\ pre = NoPre
    /\ prevCall = NoCall
    /\ withLog = [t \in Txs |-> NoWithLog]
    /\ raced = FALSE
    /\ chain = NoChain
    /\ ctx = NoCtx
    /\ running = {}
    /\ held = NoHeld

Init == InitTx(OneTx) /\ recording = FALSE /\ rbLog = [t \in Txs |-> NoRbLog(FALSE)]

InitHist == InitTx(OneTx) /\ recording = TRUE /\ rbLog = [t \in Txs |-> NoRbLog(FALSE)]

(***************************************************************************)
(* Group replacement.                                                      *)
(***************************************************************************)
\* WithCommit: t.commit = commit
WithCommitAppends(old, new) ==
    IF old.isNil \/ new.isNil THEN new
    ELSE LET all == old.Fns \o new.Fns
         IN  GroupPtr(SubSeq(all, 1, IF Len(all) < MaxFns THEN Len(all) ELSE MaxFns))

WithCommitField(old, new) == new

\* WithRollback: t.rollback = rollback
WithRollbackKeepsIfEmpty(old, new) == IF ~new.isNil /\ new.Fns = <<>> THEN old ELSE new

WithRollbackField(old, new) == new

\* return t: the *Transaction a With* call returns
WithReturnsCopy(t) == IF t = "t1" THEN "t2" ELSE "t1"

WithReturns(t) == t

SetCommitShared(t, g) ==
    /\ commit' = [u \in Txs |-> WithCommitField(commit[u], g)]
    /\ withLog' = [withLog EXCEPT ![t] = LogWith(withLog[t], g)]
    /\ prevCall' = NoCall
    /\ UNCHANGED <<checkRollback, rollback, op, self, stage, grp, fns, idx, ret,
                   trace, pre, opts0, recording, rbLog, ctx, running>>

\* the assignment of WithCommit and what it leaves alone
SetCommit(t, g) ==
    /\ commit' = [commit EXCEPT ![t] = WithCommitField(commit[t], g)]
    /\ withLog' = [withLog EXCEPT ![t] = LogWith(withLog[t], g)]
    /\ prevCall' = NoCall
    /\ UNCHANGED <<checkRollback, rollback, op, self, stage, grp, fns, idx, ret,
                   trace, pre, opts0, recording, rbLog, ctx, running>>

SetRollbackEnablesCheck(t, g) ==
    /\ rollback' = [rollback EXCEPT ![t] = WithRollbackField(rollback[t], g)]
    /\ checkRollback' = [checkRollback EXCEPT ![t] = TRUE]
    /\ rbLog' = [rbLog EXCEPT ![t] = LogRollback(rbLog[t], g)]
    /\ prevCall' = NoCall
    /\ UNCHANGED <<commit, op, self, stage, grp, fns, idx, ret,
                   trace, pre, opts0, withLog, recording, ctx, running>>

\* the assignment of WithRollback and what it leaves alone
SetRollback(t, g) ==
    /\ rollback' = [rollback EXCEPT ![t] = WithRollbackField(rollback[t], g)]
    /\ rbLog' = [rbLog EXCEPT ![t] = LogRollback(rbLog[t], g)]
    /\ prevCall' = NoCall
    /\ UNCHANGED <<checkRollback, commit, op, self, stage, grp, fns, idx, ret,
                   trace, pre, opts0, withLog, recording, ctx, running>>

\* the caller's pointer after t's field is given another group: it no longer
\* points to a group of the Transaction
DropHeld(t, field) == IF held.tx = t /\ held.field = field THEN NoHeld ELSE held

\* t.WithCommit(g) as a statement, between calls; the result is not used
WithCommit(t, g) ==
    /\ Idle
    /\ pc' = "idle"
    /\ SetCommit(t, g)
    /\ chain' = NoChain
    /\ UNCHANGED raced
    /\ held' = DropHeld(t, "commit")

\* t.WithRollback(g) as a statement, between calls; the result is not used
WithRollback(t, g) ==
    /\ Idle
    /\ pc' = "idle"
    /\ SetRollback(t, g)
    /\ chain' = NoChain
    /\ UNCHANGED raced
    /\ held' = DropHeld(t, "rollback")

SharesObjectCopied == FALSE

\* t.commit = commit / t.rollback = rollback assign the pointer: the field
\* and the caller's variable name one and the same group object
SharesObject == TRUE

\* commit := NewCommit(f.Fn, f.Args...); t.WithCommit(commit), and the caller
\* keeps the variable commit
WithCommitHeld(t, f) ==
    /\ Idle
    /\ pc' = "idle"
    /\ SetCommit(t, NewCommit(f))
    /\ held' = [tx |-> t, field |-> "commit", shared |-> SharesObject,
                given |-> <<f>>, Fns |-> <<f>>]
    /\ chain' = NoChain
    /\ UNCHANGED raced

\* rollback := NewRollback(f.Fn, f.Args...); t.WithRollback(rollback)
WithRollbackHeld(t, f) ==
    /\ Idle
    /\ pc' = "idle"
    /\ SetRollback(t, NewRollback(f))
    /\ held' = [tx |-> t, field |-> "rollback", shared |-> SharesObject,
                given |-> <<f>>, Fns |-> <<f>>]
    /\ chain' = NoChain
    /\ UNCHANGED raced

\* the caller assigns newFns to the Fns field of the group object it holds;
\* the Transaction's field sees it when it names the same object
CallerSetsFns(newFns) ==
    /\ Idle
    /\ held.tx # "none"
    /\ pc' = "idle"
    /\ held' = [held EXCEPT !.Fns = newFns]
    /\ commit' = IF held.shared /\ held.field = "commit"
                 THEN [commit EXCEPT ![held.tx] = GroupPtr(newFns)] ELSE commit
    /\ rollback' = IF held.shared /\ held.field = "rollback"
                   THEN [rollback EXCEPT ![held.tx] = GroupPtr(newFns)] ELSE rollback
    /\ prevCall' = NoCall
    /\ chain' = NoChain
    /\ UNCHANGED <<checkRollback, op, self, stage, grp, fns, idx, ret, trace, pre, opts0,
                   withLog, recording, raced, rbLog, ctx, running>>

\* g.Fns = append(g.Fns, Function{f.Fn, f.Args}), between calls
CallerAppends(f) ==
    /\ Len(held.Fns) < MaxFns
    /\ CallerSetsFns(Append(held.Fns, f))

\* g.Fns = nil, between calls
CallerClears ==
    /\ held.Fns # <<>>
    /\ CallerSetsFns(<<>>)

\* x := t.WithCommit(g): the caller keeps the result to chain on it
WithCommitKept(t, g) ==
    /\ Idle
    /\ pc' = "idle"
    /\ SetCommit(t, g)
    /\ chain' = [recv |-> WithReturns(t), root |-> t, hasC |-> TRUE, c |-> g,
                 hasR |-> FALSE, r |-> NilGroup]
    /\ held' = DropHeld(t, "commit")
    /\ UNCHANGED raced

\* x := t.WithRollback(g)
WithRollbackKept(t, g) ==
    /\ Idle
    /\ pc' = "idle"
    /\ SetRollback(t, g)
    /\ chain' = [recv |-> WithReturns(t), root |-> t, hasC |-> FALSE, c |-> NilGroup,
                 hasR |-> TRUE, r |-> g]
    /\ held' = DropHeld(t, "rollback")
    /\ UNCHANGED raced

\* x.WithCommit(g), on the result of the previous With* call
ChainWithCommit(g) ==
    /\ Idle
    /\ chain.recv \in Txs
    /\ SetCommit(chain.recv, g)
    /\ chain' = [chain EXCEPT !.recv = WithReturns(chain.recv), !.hasC = TRUE, !.c = g]
    /\ held' = DropHeld(chain.recv, "commit")
    /\ UNCHANGED <<pc, raced>>

\* x.WithRollback(g), on the result of the previous With* call
ChainWithRollback(g) ==
    /\ Idle
    /\ chain.recv \in Txs
    /\ SetRollback(chain.recv, g)
    /\ chain' = [chain EXCEPT !.recv = WithReturns(chain.recv), !.hasR = TRUE, !.r = g]
    /\ held' = DropHeld(chain.recv, "rollback")
    /\ UNCHANGED <<pc, raced>>

\* t.WithRollback(g) from another goroutine while DoCommit on t is inside its
\* loop, after the precondition check: the caller does not serialize
WithRollbackDuring(t, g) ==
    /\ pc = "loop"
    /\ op = "DoCommit"
    /\ self = t
    /\ SetRollback(t, g)
    /\ raced' = TRUE
    /\ held' = DropHeld(t, "rollback")
    /\ UNCHANGED <<pc, chain>>

(***************************************************************************)
(* Execution.                                                              *)
(***************************************************************************)
\* the call ends: it returned r, or panicked
Finish(r) ==
    /\ pc' = "done"
    /\ ret' = r
    /\ UNCHANGED <<stage, grp, fns, idx, trace>>

\* doCommit(ctx, g) / doRollback(ctx, g) is entered: g.Fns is evaluated once,
\* by the range clause; a nil g panics there
EnterLoop(st, t, field) ==
    IF Field(t, field).isNil
    THEN Finish(Panic)
    ELSE /\ pc' = "loop"
         /\ stage' = st
         /\ grp' = field
         /\ fns' = RangeOver(Field(t, field))
         /\ idx' = FirstIndex
         /\ UNCHANGED <<ret, trace>>

\* t.DoCommit(c), up to the call of doCommit
DoCommit(t, c) ==
    /\ Idle
    /\ ctx' = [arg |-> c, seen |-> <<>>]
    /\ op' = "DoCommit"
    /\ self' = t
    /\ pre' = Snapshot(t)
    /\ IF checkRollback[t] /\ rollback[t].isNil
       THEN Finish(Panic)
       ELSE IF CommitRefused(t)
            THEN Finish(ErrCannotDoCommit)
            ELSE EnterLoop("commit", t, DoCommitGroup(t))
    /\ UNCHANGED <<checkRollback, commit, rollback, prevCall, opts0, withLog, recording,
                   raced, chain, rbLog, running, held>>

\* t.DoRollback(c), up to the call of doRollback
DoRollback(t, c) ==
    /\ Idle
    /\ ctx' = [arg |-> c, seen |-> <<>>]
    /\ op' = "DoRollback"
    /\ self' = t
    /\ pre' = Snapshot(t)
    /\ IF rollback[t].isNil
       THEN Finish(Panic)
       ELSE IF RollbackRefused(t)
            THEN Finish(ErrCannotDoRollback)
            ELSE EnterLoop("rollback", t, DoRollbackGroup(t))
    /\ UNCHANGED <<checkRollback, commit, rollback, prevCall, opts0, withLog, recording,
                   raced, chain, rbLog, running, held>>

\* the calls as the tests and the example make them, with context.Background()
CallDoCommit(t) == DoCommit(t, Background)

CallDoRollback(t) == DoRollback(t, Background)

\* x.DoCommit(ctx) / x.DoRollback(ctx), on the result of the previous With* call
ChainDoCommit == chain.recv \in Txs /\ CallDoCommit(chain.recv)

ChainDoRollback == chain.recv \in Txs /\ CallDoRollback(chain.recv)

\* one iteration of the range loop: fn.Fn(ctx, fn.Args...) is invoked; an
\* error ends the call with the wrapped error, nil moves on to the next index
Invoke ==
    /\ pc = "loop"
    /\ idx < Len(fns)
    /\ LET fn == fns[idx + 1]
           err == CallFn(fn)
       IN  /\ trace' = Append(trace, [stage |-> stage, group |-> grp, index |-> idx,
                                   fn |-> fn, args |-> PassedArgs(fns, idx)])
           /\ IF err # NoErr
              THEN /\ pc' = "done"
                   /\ ret' = WrapError(stage, idx, err)
                   /\ idx' = idx
              ELSE /\ idx' = NextIndex(idx)
                   /\ UNCHANGED <<pc, ret>>
    /\ ctx' = [ctx EXCEPT !.seen = Append(@, PassedCtx(ctx.arg))]
    /\ UNCHANGED <<checkRollback, commit, rollback, op, self, stage, grp, fns, pre,
                   prevCall, opts0, withLog, recording, raced, chain, rbLog, running, held>>

\* the same iteration in two steps, the call of the callable and its return
InvokeBeginAsync ==
    /\ pc = "loop"
    /\ idx < Len(fns)
    /\ idx \notin running
    /\ running' = running \cup {idx}
    /\ trace' = Append(trace, [stage |-> stage, group |-> grp, index |-> idx,
                               fn |-> fns[idx + 1], args |-> PassedArgs(fns, idx)])
    /\ ctx' = [ctx EXCEPT !.seen = Append(@, PassedCtx(ctx.arg))]
    /\ idx' = NextIndex(idx)
    /\ UNCHANGED <<checkRollback, commit, rollback, pc, op, self, stage, grp, fns, ret, pre,
                   prevCall, opts0, withLog, recording, raced, chain, rbLog, held>>

\* fn.Fn(ctx, fn.Args...) is called: an ordinary call, so the loop is at a
\* standstill until it returns
InvokeBegin ==
    /\ pc = "loop"
    /\ idx < Len(fns)
    /\ running = {}
    /\ running' = {idx}
    /\ trace' = Append(trace, [stage |-> stage, group |-> grp, index |-> idx,
                               fn |-> fns[idx + 1], args |-> PassedArgs(fns, idx)])
    /\ ctx' = [ctx EXCEPT !.seen = Append(@, PassedCtx(ctx.arg))]
    /\ UNCHANGED <<checkRollback, commit, rollback, pc, op, self, stage, grp, fns, idx, ret,
                   pre, prevCall, opts0, withLog, recording, raced, chain, rbLog, held>>

\* the callable returns: an error ends the call, nil moves on to the next index
InvokeEnd ==
    /\ pc = "loop"
    /\ \E i \in running :
          LET err == CallFn(fns[i + 1])
          IN  /\ running' = running \ {i}
              /\ IF err # NoErr
                 THEN /\ pc' = "done"
                      /\ ret' = WrapError(stage, i, err)
                      /\ idx' = idx
                 ELSE /\ idx' = NextIndex(i)
                      /\ UNCHANGED <<pc, ret>>
    /\ UNCHANGED <<checkRollback, commit, rollback, op, self, stage, grp, fns, trace, pre,
                   prevCall, opts0, withLog, recording, raced, chain, rbLog, ctx, held>>

\* the range is exhausted: return nil
LoopEndClears ==
    /\ pc = "loop"
    /\ idx >= Len(fns)
    /\ pc' = "done"
    /\ ret' = NoErr
    /\ commit' = IF grp = "commit" THEN [commit EXCEPT ![self] = GroupPtr(<<>>)] ELSE commit
    /\ rollback' = IF grp = "rollback" THEN [rollback EXCEPT ![self] = GroupPtr(<<>>)]
                   ELSE rollback
    /\ UNCHANGED <<checkRollback, op, self, stage, grp, fns, idx,
                   trace, pre, prevCall, opts0, withLog, recording, raced, chain,
                   rbLog, ctx, running, held>>

LoopEnd ==
    /\ pc = "loop"
    /\ idx >= Len(fns)
    /\ pc' = "done"
    /\ ret' = NoErr
    /\ UNCHANGED <<checkRollback, commit, rollback, op, self, stage, grp, fns, idx,
                   trace, pre, prevCall, opts0, withLog, recording, raced, chain,
                   rbLog, ctx, running, held>>

\* the caller has the result; the Transaction is ready for the next call
Return ==
    /\ pc = "done"
    /\ pc' = "idle"
    /\ prevCall' = [op |-> op, self |-> self, trace |-> trace, ret |-> ret]
    /\ op' = "none"
    /\ self' = "none"
    /\ stage' = "none"
    /\ grp' = "none"
    /\ fns' = <<>>
    /\ idx' = 0
    /\ ret' = NoErr
    /\ trace' = <<>>
    /\ pre' = NoPre
    /\ raced' = FALSE
    /\ chain' = NoChain
    /\ ctx' = NoCtx
    /\ UNCHANGED <<checkRollback, commit, rollback, opts0, withLog, recording,
                   rbLog, running, held>>

Next ==
    \/ \E t \in OneTx, g \in GroupArgs : WithCommit(t, g)
    \/ \E t \in OneTx, g \in GroupArgs : WithRollback(t, g)
    \/ \E t \in OneTx : CallDoCommit(t)
    \/ \E t \in OneTx : CallDoRollback(t)
    \/ Invoke
    \/ LoopEnd
    \/ Return

Spec == Init /\ [][Next]_vars

\* the same program when every callable returns and the goroutine making the
\* call keeps running: a loop that can take its next step does take it
SpecLive == Init /\ [][Next]_vars /\ WF_vars(Invoke) /\ WF_vars(LoopEnd)

\* the same program, with the history of WithCommit calls kept
SpecHist == InitHist /\ [][Next]_vars

\* the same program, with the history of WithRollback calls kept
InitHistR == InitTx(OneTx) /\ recording = FALSE /\ rbLog = [t \in Txs |-> NoRbLog(TRUE)]

NextHistR ==
    \/ \E t \in OneTx, g \in BuiltCommits : WithCommit(t, g)
    \/ \E t \in OneTx, g \in GroupArgs : WithRollback(t, g)
    \/ \E t \in OneTx : CallDoCommit(t)
    \/ \E t \in OneTx : CallDoRollback(t)
    \/ Invoke
    \/ LoopEnd
    \/ Return

SpecHistR == InitHistR /\ [][NextHistR]_vars

\* the same program, called with any context
NextCtx ==
    \/ \E t \in OneTx, g \in GroupArgs : WithCommit(t, g)
    \/ \E t \in OneTx, g \in GroupArgs : WithRollback(t, g)
    \/ \E t \in OneTx, c \in Contexts : DoCommit(t, c)
    \/ \E t \in OneTx, c \in Contexts : DoRollback(t, c)
    \/ Invoke
    \/ LoopEnd
    \/ Return

SpecCtx == Init /\ [][NextCtx]_vars

\* the same program, with the call and the return of a callable as two steps
NextSeq ==
    \/ \E t \in OneTx, g \in GroupArgs : WithCommit(t, g)
    \/ \E t \in OneTx, g \in GroupArgs : WithRollback(t, g)
    \/ \E t \in OneTx : CallDoCommit(t)
    \/ \E t \in OneTx : CallDoRollback(t)
    \/ InvokeBegin
    \/ InvokeEnd
    \/ LoopEnd
    \/ Return

SpecSeq == Init /\ [][NextSeq]_vars

\* the same program, with a caller that keeps the pointer to the group it
\* passed and changes the group's Fns between calls
NextRef ==
    \/ \E t \in OneTx, f \in Functions : WithCommitHeld(t, f)
    \/ \E t \in OneTx, f \in Functions : WithRollbackHeld(t, f)
    \/ \E t \in OneTx, g \in BuiltCommits : WithCommit(t, g)
    \/ \E t \in OneTx, g \in BuiltRollbacks : WithRollback(t, g)
    \/ \E f \in Functions : CallerAppends(f)
    \/ CallerClears
    \/ \E t \in OneTx : CallDoCommit(t)
    \/ \E t \in OneTx : CallDoRollback(t)
    \/ Invoke
    \/ LoopEnd
    \/ Return

SpecRef == Init /\ [][NextRef]_vars

\* the same program, driven with callables that return the sentinel errors
NextErr ==
    \/ \E t \in OneTx, g \in SentinelGroupArgs : WithCommit(t, g)
    \/ \E t \in OneTx, g \in SentinelGroupArgs : WithRollback(t, g)
    \/ \E t \in OneTx : CallDoCommit(t)
    \/ \E t \in OneTx : CallDoRollback(t)
    \/ Invoke
    \/ LoopEnd
    \/ Return

SpecErr == Init /\ [][NextErr]_vars

\* the same program, with a caller that also calls WithRollback while a call
\* on the same Transaction is running
NextConc ==
    \/ Next
    \/ \E t \in OneTx, g \in BuiltRollbacks : WithRollbackDuring(t, g)

SpecConc == Init /\ [][NextConc]_vars

\* one Transaction, configured by chains of With* calls and by separate
\* calls, with groups made by NewCommit / NewRollback as in the example
NextChain ==
    \/ \E t \in OneTx, g \in BuiltCommits : WithCommit(t, g)
    \/ \E t \in OneTx, g \in BuiltRollbacks : WithRollback(t, g)
    \/ \E t \in OneTx, g \in BuiltCommits : WithCommitKept(t, g)
    \/ \E t \in OneTx, g \in BuiltRollbacks : WithRollbackKept(t, g)
    \/ \E g \in BuiltCommits : ChainWithCommit(g)
    \/ \E g \in BuiltRollbacks : ChainWithRollback(g)
    \/ ChainDoCommit
    \/ ChainDoRollback
    \/ \E t \in OneTx : CallDoCommit(t)
    \/ \E t \in OneTx : CallDoRollback(t)
    \/ Invoke
    \/ LoopEnd
    \/ Return

SpecChain == Init /\ [][NextChain]_vars

\* two Transactions, each built with any options and used independently
InitTwo == InitTx(Txs) /\ recording = FALSE /\ rbLog = [t \in Txs |-> NoRbLog(FALSE)]

NextTwo ==
    \/ \E t \in Txs, g \in BuiltCommits : WithCommit(t, g)
    \/ \E t \in Txs, g \in BuiltRollbacks : WithRollback(t, g)
    \/ \E t \in Txs : CallDoCommit(t)
    \/ \E t \in Txs : CallDoRollback(t)
    \/ Invoke
    \/ LoopEnd
    \/ Return

SpecTwo == InitTwo /\ [][NextTwo]_vars

(***************************************************************************)
(* What a call is expected to do, stated from the group it was given.      *)
(***************************************************************************)
Min(a, b) == IF a < b THEN a ELSE b

Elems(s) == {s[k] : k \in 1..Len(s)}

\* the zero-based index of the first action of s that returns an error,
\* Len(s) when none does
FirstFailing(s) ==
    IF \E k \in 1..Len(s) : CallFn(s[k]) # NoErr
    THEN (CHOOSE k \in 1..Len(s) :
              /\ CallFn(s[k]) # NoErr
              /\ \A j \in 1..(k - 1) : CallFn(s[j]) = NoErr) - 1
    ELSE Len(s)

\* the actions 0..n-1 of s, each invoked once, in registration order
InOrder(field, s, n) ==
    [j \in 1..n |-> [stage |-> field, group |-> field, index |-> j - 1,
                     fn |-> s[j], args |-> s[j].Args]]

\* the call has returned and the caller has not yet done anything else
Returned(o) == pc = "done" /\ op = o

\* DoCommit's precondition held when the call began
CommitAllowed == ~pre.rollback.isNil /\ ~(pre.checkRollback /\ pre.rollback.Fns = <<>>)

\* C1: with default options and an empty rollback group DoCommit returns
\* ErrCannotDoCommit and invokes no action, whatever the commit group holds
C1_CommitRefusedWithoutRollback ==
    (/\ Returned("DoCommit")
     /\ opts0[self] = {}
     /\ ~pre.rollback.isNil
     /\ pre.rollback.Fns = <<>>)
    => (ret = ErrCannotDoCommit /\ trace = <<>>)

C1_Witness ==
    /\ Returned("DoCommit")
    /\ opts0[self] = {}
    /\ ~pre.rollback.isNil
    /\ pre.rollback.Fns = <<>>
    /\ Len(pre.commit.Fns) = 2
    /\ ret = ErrCannotDoCommit

\* C2: when the commit action at index k fails and those before it succeed,
\* DoCommit invokes actions 0..k once each in order and none after k, and
\* returns an error naming stage "commit", index k and the original message
C2_CommitStopsAtFirstError ==
    (/\ Returned("DoCommit")
     /\ CommitAllowed
     /\ ~pre.commit.isNil
     /\ FirstFailing(pre.commit.Fns) < Len(pre.commit.Fns))
    => LET k == FirstFailing(pre.commit.Fns)
       IN  /\ trace = InOrder("commit", pre.commit.Fns, k + 1)
           /\ ret.type = "wrapError"
           /\ ret.msg = "tx-keeper: error commit on func " \o ToString(k) \o ": "
                           \o CallFn(pre.commit.Fns[k + 1]).msg

C2_Witness ==
    /\ Returned("DoCommit")
    /\ CommitAllowed
    /\ ~pre.commit.isNil
    /\ Len(pre.commit.Fns) = 2
    /\ FirstFailing(pre.commit.Fns) = 1
    /\ Len(trace) = 2
    /\ ret.msg = "tx-keeper: error commit on func 1: some error"

\* C3: with a non-empty rollback group DoRollback invokes the rollback
\* actions in registration order, stops at the first that fails, returns an
\* error naming stage "rollback" and that index, and nil when none fails
C3_RollbackInOrder ==
    (/\ Returned("DoRollback")
     /\ ~pre.rollback.isNil
     /\ pre.rollback.Fns # <<>>)
    => LET s == pre.rollback.Fns
           k == FirstFailing(s)
       IN  /\ trace = InOrder("rollback", s, Min(k + 1, Len(s)))
           /\ k = Len(s) => ret = NoErr
           /\ k < Len(s) =>
                 /\ ret.type = "wrapError"
                 /\ ret.msg = "tx-keeper: error rollback on func " \o ToString(k) \o ": "
                                 \o CallFn(s[k + 1]).msg

C3_Witness ==
    /\ Returned("DoRollback")
    /\ Len(pre.rollback.Fns) = 2
    /\ pre.rollback.Fns[1] # pre.rollback.Fns[2]
    /\ Len(trace) = 2
    /\ trace[1].fn = pre.rollback.Fns[1]
    /\ ret = NoErr

\* C4: with an empty rollback group DoRollback returns ErrCannotDoRollback
\* and invokes no action, whether the rollback check is enabled or disabled
C4_RollbackRefusedWhenEmpty ==
    (/\ Returned("DoRollback")
     /\ ~pre.rollback.isNil
     /\ pre.rollback.Fns = <<>>)
    => (ret = ErrCannotDoRollback /\ trace = <<>>)

C4_Witness ==
    /\ Returned("DoRollback")
    /\ ~pre.rollback.isNil
    /\ pre.rollback.Fns = <<>>
    /\ ~pre.checkRollback
    /\ pre.commit.Fns # <<>>
    /\ ret = ErrCannotDoRollback

\* what running the group s of the given field to its end or first error yields
RunOf(field, s) ==
    LET k == FirstFailing(s)
    IN  [trace |-> InOrder(field, s, Min(k + 1, Len(s))),
         ret |-> IF k = Len(s) THEN NoErr
                 ELSE [type |-> "wrapError",
                       msg |-> "tx-keeper: error " \o field \o " on func " \o ToString(k)
                                  \o ": " \o CallFn(s[k + 1]).msg,
                       err |-> CallFn(s[k + 1])]]

\* C5: a Transaction built with WithNoCheckRollback never gets
\* ErrCannotDoCommit from DoCommit with an empty rollback group; the commit
\* actions run exactly as they do with a non-empty rollback group
C5_NoCheckRollbackCommits ==
    /\ (/\ Returned("DoCommit")
        /\ "WithNoCheckRollback" \in opts0[self]
        /\ ~pre.rollback.isNil
        /\ pre.rollback.Fns = <<>>)
       => /\ ret # ErrCannotDoCommit
          /\ ~pre.commit.isNil =>
                (trace = RunOf("commit", pre.commit.Fns).trace
                 /\ ret = RunOf("commit", pre.commit.Fns).ret)
    /\ (/\ Returned("DoCommit")
        /\ pre.rollback.Fns # <<>>
        /\ ~pre.commit.isNil)
       => (trace = RunOf("commit", pre.commit.Fns).trace
           /\ ret = RunOf("commit", pre.commit.Fns).ret)

C5_Witness ==
    /\ Returned("DoCommit")
    /\ "WithNoCheckRollback" \in opts0[self]
    /\ ~pre.rollback.isNil
    /\ pre.rollback.Fns = <<>>
    /\ Len(pre.commit.Fns) = 2
    /\ Len(trace) = 2
    /\ ret = NoErr

\* C6: when the precondition holds and every commit action succeeds,
\* DoCommit invokes every action of the group once, in registration order,
\* and returns nil
C6_CommitRunsAllInOrder ==
    (/\ Returned("DoCommit")
     /\ CommitAllowed
     /\ ~pre.commit.isNil
     /\ FirstFailing(pre.commit.Fns) = Len(pre.commit.Fns))
    => (/\ trace = InOrder("commit", pre.commit.Fns, Len(pre.commit.Fns))
        /\ ret = NoErr)

C6_Witness ==
    /\ Returned("DoCommit")
    /\ pre.checkRollback
    /\ pre.rollback.Fns # <<>>
    /\ Len(pre.commit.Fns) = 2
    /\ pre.commit.Fns[1] # pre.commit.Fns[2]
    /\ FirstFailing(pre.commit.Fns) = 2
    /\ Len(trace) = 2
    /\ ret = NoErr

\* C7: DoCommit invokes only actions of the commit group and DoRollback only
\* actions of the rollback group, at every point of every call; a failed
\* DoCommit has returned without any rollback action invoked
C7_NoCrossInvocation ==
    /\ op = "DoCommit" => \A k \in 1..Len(trace) : trace[k].group = "commit"
    /\ op = "DoRollback" => \A k \in 1..Len(trace) : trace[k].group = "rollback"

C7_Witness ==
    /\ Returned("DoCommit")
    /\ pre.rollback.Fns # <<>>
    /\ ret.type = "wrapError"
    /\ Len(trace) = 2

\* C8: after DoCommit returns, either every commit action of the group has
\* succeeded or none has taken effect
C8_CommitAllOrNothing ==
    (Returned("DoCommit") /\ ~pre.commit.isNil)
    => \/ (/\ ret = NoErr
           /\ Len(trace) = Len(pre.commit.Fns)
           /\ \A k \in 1..Len(trace) : CallFn(trace[k].fn) = NoErr)
       \/ \A k \in 1..Len(trace) : CallFn(trace[k].fn) # NoErr

\* C9: WithCommit replaces the group: after WithCommit(g1) and then
\* WithCommit(g2), DoCommit invokes g2's actions only and none of g1's
C9_WithCommitReplaces ==
    (/\ Returned("DoCommit")
     /\ withLog[self].n = 2
     /\ ~withLog[self].last.isNil
     /\ CommitAllowed)
    => LET g2 == withLog[self].last.Fns
       IN  /\ trace = RunOf("commit", g2).trace
           /\ \A k \in 1..Len(trace) :
                 trace[k].fn \in withLog[self].before => trace[k].fn \in Elems(g2)

C9_Witness ==
    /\ Returned("DoCommit")
    /\ withLog[self].n = 2
    /\ withLog[self].before # {}
    /\ withLog[self].before \cap Elems(withLog[self].last.Fns) = {}
    /\ Len(trace) = 2

\* C10: a second DoCommit (or DoRollback) on a Transaction left unmodified
\* since the first performs the same invocations in the same order and
\* returns the same result
C10_SecondCallRepeats ==
    (/\ pc = "done"
     /\ prevCall.op = op
     /\ prevCall.self = self)
    => (trace = prevCall.trace /\ ret = prevCall.ret)

C10_Witness ==
    /\ Returned("DoCommit")
    /\ prevCall.op = "DoCommit"
    /\ prevCall.self = self
    /\ Len(prevCall.trace) = 2
    /\ Len(trace) = 2
    /\ ret = NoErr

\* the group of the Transaction the current call runs, as it was at the call
StoredFns == IF op = "DoCommit" THEN pre.commit.Fns ELSE pre.rollback.Fns

\* C11: the commit group and the rollback group of a Transaction are never
\* nil, after construction and after any sequence of calls
C11_GroupsNeverNil ==
    \A t \in Txs : ~commit[t].isNil /\ ~rollback[t].isNil

\* C12: a nil rollback group and an empty one fail alike: DoRollback returns
\* ErrCannotDoRollback and, with the check enabled, DoCommit returns
\* ErrCannotDoCommit, as returned errors with no action invoked
C12_NilRollbackFailsLikeEmpty ==
    /\ (Returned("DoRollback") /\ pre.rollback.Fns = <<>>)
       => (ret = ErrCannotDoRollback /\ trace = <<>>)
    /\ (Returned("DoCommit") /\ pre.checkRollback /\ pre.rollback.Fns = <<>>)
       => (ret = ErrCannotDoCommit /\ trace = <<>>)

\* C13: DoCommit returns ErrCannotDoCommit only when its precondition failed
\* and DoRollback returns ErrCannotDoRollback only when the rollback group
\* was empty, with no action invoked; the error of a failed action is equal
\* to neither sentinel, whatever the action returned
C13_SentinelsMeanRefused ==
    /\ (pc = "done" /\ ret \in {ErrCannotDoCommit, ErrCannotDoRollback})
       => /\ trace = <<>>
          /\ pre.rollback.Fns = <<>>
          /\ op = "DoCommit" => (ret = ErrCannotDoCommit /\ pre.checkRollback)
          /\ op = "DoRollback" => ret = ErrCannotDoRollback
    /\ (pc = "done" /\ trace # <<>> /\ ret # NoErr)
       => ret \notin {ErrCannotDoCommit, ErrCannotDoRollback}

C13_Witness ==
    /\ Returned("DoCommit")
    /\ trace # <<>>
    /\ ret.type = "wrapError"
    /\ CallFn(trace[Len(trace)].fn) = ErrCannotDoCommit

\* C14: NewTransaction leaves checkRollback true unless WithNoCheckRollback
\* is among the options, and both groups empty and not nil
C14_NewTransaction ==
    pc = "new" =>
       \A t \in Txs :
          /\ checkRollback[t] = ("WithNoCheckRollback" \notin opts0[t])
          /\ commit[t] = GroupPtr(<<>>)
          /\ rollback[t] = GroupPtr(<<>>)

C14_Witness ==
    /\ pc = "new"
    /\ opts0["t1"] = {"WithNoCheckRollback"}
    /\ ~checkRollback["t1"]
    /\ opts0["t2"] = {}
    /\ checkRollback["t2"]

\* C15: no WithCommit, WithRollback, DoCommit or DoRollback call, successful
\* or failing, changes checkRollback
C15_CheckRollbackFixed == [][checkRollback' = checkRollback]_vars

C15_Witness ==
    /\ pc = "done"
    /\ ~checkRollback[self]
    /\ rollback[self].Fns # <<>>
    /\ Len(trace) = 2
    /\ ret.type = "wrapError"

\* C16: every invoked action is handed its own stored arguments, so the
\* shared sum is the sum of the arguments of the invoked "add" actions, 15
\* for the single action with arguments 1, 2, 3, 4, 5
C16_OwnArguments ==
    /\ \A k \in 1..Len(trace) :
          /\ trace[k].index + 1 \in 1..Len(StoredFns)
          /\ trace[k].args = StoredFns[trace[k].index + 1].Args
    /\ pc = "done" =>
          Accumulator(trace) =
             SumSeq([k \in 1..Len(trace) |->
                        IF StoredFns[k].Fn = "add" THEN SumSeq(StoredFns[k].Args) ELSE 0])
    /\ (pc = "done" /\ ret = NoErr
        /\ StoredFns = << [Fn |-> "add", Args |-> <<1, 2, 3, 4, 5>>] >>)
       => Accumulator(trace) = 15

C16_Witness ==
    /\ Returned("DoCommit")
    /\ pre.commit.Fns = << [Fn |-> "add", Args |-> <<7>>],
                           [Fn |-> "add", Args |-> <<1, 2, 3, 4, 5>>] >>
    /\ ret = NoErr
    /\ Accumulator(trace) = 22

\* C17: from the error DoCommit or DoRollback returns for a failed action
\* the caller unwraps the very error the callable returned
C17_UnwrapGivesOriginal ==
    (pc = "done" /\ trace # <<>> /\ ret # NoErr)
    => /\ Unwrap(ret) = CallFn(StoredFns[Len(trace)])
       /\ Unwrap(ret) # NoErr

C17_Witness ==
    /\ Returned("DoRollback")
    /\ Len(trace) = 2
    /\ Unwrap(ret) = ErrCannotDoRollback

\* commit actions have run in a DoCommit while the check is enabled and the
\* Transaction's rollback group is empty
CommitsWithoutRollback ==
    /\ op = "DoCommit"
    /\ trace # <<>>
    /\ checkRollback[self]
    /\ ~rollback[self].isNil
    /\ rollback[self].Fns = <<>>

\* C18: when the calls on a Transaction are serialized, with checkRollback
\* true no commit action is invoked by a DoCommit that began with an empty
\* rollback group, and none runs while the rollback group is empty; a
\* WithRollback interleaved with a running DoCommit reaches such a state
C18_SerializedCallsAreSafe ==
    ~raced =>
       /\ ~CommitsWithoutRollback
       /\ (op = "DoCommit" /\ pre.checkRollback /\ pre.rollback.Fns = <<>>)
          => trace = <<>>

C18_Witness ==
    /\ raced
    /\ CommitsWithoutRollback
    /\ pre.rollback.Fns # <<>>
    /\ Len(trace) = 2

\* C19: a With* call returns the Transaction it was called on, so a chain of
\* With* calls sets the fields of that one Transaction exactly as the
\* separate calls do, in either order, and a DoCommit / DoRollback at the end
\* of the chain runs on the groups the chain was given
C19_ChainActsOnReceiver ==
    chain.root # "none" =>
       /\ chain.recv = chain.root
       /\ chain.hasC => commit[chain.root] = chain.c
       /\ chain.hasR => rollback[chain.root] = chain.r
       /\ \A u \in Txs \ {chain.root} :
             commit[u] = GroupPtr(<<>>) /\ rollback[u] = GroupPtr(<<>>)
       /\ pc \in {"loop", "done"} =>
             /\ self = chain.root
             /\ chain.hasC => pre.commit = chain.c
             /\ chain.hasR => pre.rollback = chain.r
       /\ (Returned("DoCommit") /\ chain.hasC /\ chain.hasR /\ chain.r.Fns # <<>>)
          => (trace = RunOf("commit", chain.c.Fns).trace
              /\ ret = RunOf("commit", chain.c.Fns).ret)

C19_Witness ==
    /\ Returned("DoCommit")
    /\ chain.root = "t1"
    /\ chain.hasC
    /\ chain.hasR
    /\ chain.c.Fns # <<>>
    /\ chain.r.Fns # <<>>
    /\ trace # <<>>
    /\ ret = NoErr

\* the fields of a Transaction
FieldsOf(t) == <<checkRollback[t], commit[t], rollback[t]>>

\* the step is (part of) a call on the Transaction t
ActsOn(t) ==
    \/ \E g \in GroupArgs : WithCommit(t, g)
    \/ \E g \in GroupArgs : WithRollback(t, g)
    \/ CallDoCommit(t)
    \/ CallDoRollback(t)
    \/ (self = t /\ (Invoke \/ LoopEnd \/ Return))

\* what a call on a Transaction with the fields snap (groups not nil) does
ExpectedCall(o, snap) ==
    IF o = "DoCommit"
    THEN IF snap.checkRollback /\ snap.rollback.Fns = <<>>
         THEN [trace |-> <<>>, ret |-> ErrCannotDoCommit]
         ELSE RunOf("commit", snap.commit.Fns)
    ELSE IF snap.rollback.Fns = <<>>
         THEN [trace |-> <<>>, ret |-> ErrCannotDoRollback]
         ELSE RunOf("rollback", snap.rollback.Fns)

\* C20: a call on one Transaction leaves the groups and the flag of every
\* other Transaction unchanged, and what a call on a Transaction does and
\* returns depends on that Transaction's own fields only
C20_TransactionsIndependent ==
    /\ [][\A t \in Txs : ActsOn(t) =>
             \A u \in Txs \ {t} : FieldsOf(u)' = FieldsOf(u)]_vars
    /\ [](pc = "done" =>
             [trace |-> trace, ret |-> ret] = ExpectedCall(op, Snapshot(self)))

C20_Witness ==
    /\ Returned("DoCommit")
    /\ self = "t2"
    /\ prevCall.self = "t1"
    /\ prevCall.trace # <<>>
    /\ commit["t1"] # commit["t2"]
    /\ rollback["t1"] # rollback["t2"]
    /\ checkRollback["t1"] # checkRollback["t2"]
    /\ Len(trace) = 1
    /\ ret = NoErr

\* the call was refused by its precondition check
Refused(o) == Returned(o) /\ trace = <<>> /\ ret.type = "TxError"

C22_ChecksSeeCurrentRollback ==
    (/\ pc = "done"
     /\ rbLog[self].n = 2
     /\ ~rbLog[self].last.isNil)
    => LET r2 == rbLog[self].last.Fns
       IN  /\ (op = "DoRollback" /\ r2 # <<>>)
              => (trace = RunOf("rollback", r2).trace /\ ret = RunOf("rollback", r2).ret)
           /\ (op = "DoRollback" /\ r2 = <<>>)
              => (trace = <<>> /\ ret = ErrCannotDoRollback)
           /\ (op = "DoCommit" /\ pre.checkRollback /\ r2 = <<>>)
              => (trace = <<>> /\ ret = ErrCannotDoCommit)
           /\ (op = "DoCommit" /\ pre.checkRollback /\ r2 # <<>>)
              => ret # ErrCannotDoCommit
           /\ \A k \in 1..Len(trace) :
                 /\ op = "DoCommit" => trace[k].group = "commit"
                 /\ (trace[k].group = "rollback" /\ trace[k].fn \in rbLog[self].before)
                    => trace[k].fn \in Elems(r2)

C22_Witness ==
    /\ Returned("DoCommit")
    /\ rbLog[self].n = 2
    /\ rbLog[self].before # {}
    /\ rbLog[self].last = GroupPtr(<<>>)
    /\ pre.commit.Fns # <<>>
    /\ ret = ErrCannotDoCommit
    /\ prevCall.op = "DoRollback"
    /\ prevCall.ret = ErrCannotDoRollback

\* C23: DoCommit and DoRollback leave the Transaction unchanged: during and
\* after the call, whether it returned nil, a precondition error or the error
\* of an action at any index, the commit group, the rollback group and
\* checkRollback are what they were when the call began
C23_CallsLeaveTransactionUnchanged ==
    pc \in {"loop", "done"} => Snapshot(self) = pre

C23_Witness ==
    /\ Returned("DoCommit")
    /\ ret.type = "wrapError"
    /\ Len(trace) = 2
    /\ Snapshot(self) = pre
    /\ pre.rollback.Fns # <<>>
    /\ prevCall.op = "DoRollback"
    /\ prevCall.ret = NoErr
    /\ prevCall.trace # <<>>

\* C24: DoRollback is not coupled to the commit history: with a non-empty
\* rollback group it starts at index 0 and goes through the whole group (to
\* its end or its own first failure) whether DoCommit was never called,
\* succeeded, or failed at any index, however many commit actions ran
C24_RollbackIgnoresCommitHistory ==
    (/\ Returned("DoRollback")
     /\ prevCall.op \in {"none", "DoCommit"}
     /\ ~pre.rollback.isNil
     /\ pre.rollback.Fns # <<>>)
    => LET s == pre.rollback.Fns
           n == Min(FirstFailing(s) + 1, Len(s))
       IN  /\ Len(trace) = n
           /\ \A k \in 1..n : trace[k].index = k - 1 /\ trace[k].fn = s[k]
           /\ FirstFailing(s) = Len(s) => ret = NoErr

C24_Witness ==
    /\ Returned("DoRollback")
    /\ prevCall.op = "DoCommit"
    /\ prevCall.ret.type = "wrapError"
    /\ Len(prevCall.trace) = 1
    /\ Len(pre.commit.Fns) = 2
    /\ Len(pre.rollback.Fns) = 2
    /\ Len(trace) = 2
    /\ trace[1].index = 0
    /\ ret = NoErr

\* C25: every invoked action is handed the very context the call was given,
\* and the call does not look at it: with a cancelled or expired context
\* DoCommit and DoRollback do exactly what they do with a live one, invoking
\* every action in order and returning nil when all actions return nil
C25_ContextPassedNotInspected ==
    /\ pc \in {"loop", "done"} =>
          /\ ctx.arg \in Contexts
          /\ ctx.seen = [k \in 1..Len(trace) |-> ctx.arg]
    /\ (pc = "done" /\ ~pre.commit.isNil /\ ~pre.rollback.isNil) =>
          [trace |-> trace, ret |-> ret] = ExpectedCall(op, pre)
    /\ (/\ pc = "done"
        /\ ctx.arg # Background
        /\ trace # <<>>
        /\ FirstFailing(StoredFns) = Len(StoredFns))
       => (Len(trace) = Len(StoredFns) /\ ret = NoErr)

C25_Witness ==
    /\ Returned("DoCommit")
    /\ ctx.arg = "cancelled"
    /\ ctx.seen = <<"cancelled", "cancelled">>
    /\ Len(trace) = 2
    /\ ret = NoErr
    /\ prevCall.op = "DoRollback"
    /\ prevCall.ret = NoErr

\* C26: within one DoCommit or DoRollback call at most one action is in
\* progress at any time, the actions are invoked at indices 0, 1, 2, ..., and
\* action i+1 is invoked only after action i has returned nil
C26_StrictlySequential ==
    /\ Cardinality(running) <= 1
    /\ running # {} =>
          /\ pc = "loop"
          /\ running = {idx}
          /\ trace # <<>>
          /\ trace[Len(trace)].index = idx
    /\ \A k \in 1..Len(trace) :
          /\ trace[k].index = k - 1
          /\ k < Len(trace) => (CallFn(trace[k].fn) = NoErr /\ (k - 1) \notin running)

C26_Witness ==
    /\ op = "DoCommit"
    /\ pc = "loop"
    /\ running = {1}
    /\ Len(trace) = 2
    /\ CallFn(trace[1].fn) = NoErr

\* C27: DoCommit with an empty commit group and its precondition met (the
\* rollback group not empty, or the check disabled) returns nil and invokes
\* nothing; whether DoCommit is refused depends on checkRollback and the
\* rollback group only, never on what the commit group holds
C27_EmptyCommitSucceeds ==
    /\ (Returned("DoCommit") /\ pre.commit = GroupPtr(<<>>) /\ CommitAllowed)
       => (ret = NoErr /\ trace = <<>>)
    /\ (Returned("DoCommit") /\ ~pre.rollback.isNil)
       => ((ret = ErrCannotDoCommit) <=> (pre.checkRollback /\ pre.rollback.Fns = <<>>))

C27_Witness ==
    /\ Returned("DoCommit")
    /\ pre.commit = GroupPtr(<<>>)
    /\ pre.checkRollback
    /\ Len(pre.rollback.Fns) = 2
    /\ ret = NoErr
    /\ trace = <<>>
    /\ prevCall.op = "DoCommit"

\* C28: when every callable returns, every DoCommit and DoRollback call
\* terminates, having invoked at most as many actions as the group held when
\* the loop started, none of them twice
C28_CallsTerminate ==
    /\ [](/\ Len(trace) <= Len(StoredFns)
          /\ \A j, k \in 1..Len(trace) : j # k => trace[j].index # trace[k].index)
    /\ (pc = "loop") ~> (pc = "done")

C28_Witness ==
    /\ Returned("DoRollback")
    /\ Len(pre.rollback.Fns) = 2
    /\ Len(trace) = 2
    /\ trace[1].index # trace[2].index
    /\ ret = NoErr

\* the fields the call saw, with the field the caller's pointer names holding
\* the object as the caller last left it
PreWithHeld ==
    IF held.field = "commit"
    THEN [pre EXCEPT !.commit = GroupPtr(held.Fns)]
    ELSE [pre EXCEPT !.rollback = GroupPtr(held.Fns)]

\* C29: WithCommit and WithRollback keep the pointer, not a copy: what the
\* caller does to the group's list after the With* call and before DoCommit
\* or DoRollback is what the call checks and runs
C29_GroupStoredByReference ==
    (pc \in {"loop", "done"} /\ held.tx = self) =>
       /\ pre = PreWithHeld
       /\ Snapshot(self) = PreWithHeld
       /\ pc = "done" => [trace |-> trace, ret |-> ret] = ExpectedCall(op, PreWithHeld)

C29_Witness ==
    /\ Returned("DoCommit")
    /\ held.tx = self
    /\ held.field = "commit"
    /\ Len(held.given) = 1
    /\ Len(held.Fns) = 2
    /\ Len(trace) = 2
    /\ trace[2].fn \notin Elems(held.given)
    /\ ret = NoErr

====
